---------------------------- MODULE Spec2Model ----------------------------
(***************************************************************************)
(* generate_atlantis_yaml: walk a repository of Terraform modules, find    *)
(* the projects (modules with a backend), resolve for each project the     *)
(* transitive closure of its local module calls, and write the resulting   *)
(* autoplan patterns to atlantis.yaml.                                     *)
(*                                                                         *)
(* Paths are TLA+ strings; the string functions of the Go standard library *)
(* that main.go uses are modelled character by character.                  *)
(***************************************************************************)
EXTENDS Integers, Sequences, FiniteSets, TLC

(***************************************************************************)
(* Strings                                                                 *)
(***************************************************************************)

\* A Go call evaluates its arguments once, before the body runs.
ByValue(F(_), a) == CHOOSE r \in {F(v) : v \in {a}} : TRUE

ByValue2(F(_, _), a, b) == CHOOSE r \in {F(v, w) : v \in {a}, w \in {b}} : TRUE

ByValue3(F(_, _, _), a, b, c) ==
    CHOOSE r \in {F(v, w, x) : v \in {a}, w \in {b}, x \in {c}} : TRUE

\* The characters that occur in the modelled paths, in ascending byte order.
Alphabet == "*-./0123456789_abcdefghijklmnopqrstuvwxyz"

CharAt(s, i) == SubSeq(s, i, i)

Ord(c) == CHOOSE i \in 1..Len(Alphabet) : CharAt(Alphabet, i) = c

HasPrefix(s, p) == Len(s) >= Len(p) /\ SubSeq(s, 1, Len(p)) = p

\* strings.Index, 1-based; 0 when sub does not occur in s.
RECURSIVE IndexFrom(_, _, _)
IndexFrom(str, substr, from) ==
    ByValue3(LAMBDA s, sub, i :
                IF i + Len(sub) - 1 > Len(s) THEN 0
                ELSE IF SubSeq(s, i, i + Len(sub) - 1) = sub THEN i
                ELSE IndexFrom(s, sub, i + 1),
             str, substr, from)

Index(s, sub) == IndexFrom(s, sub, 1)

\* strings.Replace(s, old, new, 1): only the first occurrence is replaced.
ReplaceFirst(str, old, new) ==
    ByValue2(LAMBDA s, i :
                IF i = 0 THEN s
                ELSE SubSeq(s, 1, i - 1) \o new \o SubSeq(s, i + Len(old), Len(s)),
             str, Index(str, old))

\* The "/"-separated elements of s (empty elements included).
RECURSIVE Split(_)
Split(str) ==
    ByValue2(LAMBDA s, i :
                IF i = 0 THEN <<s>>
                ELSE <<SubSeq(s, 1, i - 1)>> \o Split(SubSeq(s, i + 1, Len(s))),
             str, Index(str, "/"))

RECURSIVE Join(_)
Join(elems) ==
    ByValue(LAMBDA segs :
                IF segs = <<>> THEN ""
                ELSE IF Len(segs) = 1 THEN segs[1]
                ELSE segs[1] \o "/" \o Join(Tail(segs)),
            elems)

\* The element stack of filepath.Clean: "" and "." are dropped, ".." removes
\* the element before it, is dropped at the root and kept otherwise.
RECURSIVE CleanElems(_, _, _)
CleanElems(elems, stack, rooted) ==
    ByValue2(LAMBDA segs, out :
        IF segs = <<>> THEN out
        ELSE LET e == Head(segs) IN
             IF e = "" \/ e = "." THEN CleanElems(Tail(segs), out, rooted)
             ELSE IF e = ".." THEN
                  IF out # <<>> /\ out[Len(out)] # ".."
                  THEN CleanElems(Tail(segs), SubSeq(out, 1, Len(out) - 1), rooted)
                  ELSE IF rooted THEN CleanElems(Tail(segs), out, rooted)
                  ELSE CleanElems(Tail(segs), Append(out, ".."), rooted)
             ELSE CleanElems(Tail(segs), Append(out, e), rooted),
        elems, stack)

\* filepath.Clean
Clean(path) ==
    ByValue2(LAMBDA p, rooted :
                ByValue(LAMBDA body :
                            IF rooted THEN "/" \o body
                            ELSE IF body = "" THEN "."
                            ELSE body,
                        Join(CleanElems(Split(p), <<>>, rooted))),
             path, HasPrefix(path, "/"))

\* filepath.Join of a directory and one address.
JoinPath(dir, addr) == Clean(dir \o "/" \o addr)

\* filepath.Base of a clean path: its last element.
Base(path) ==
    ByValue(LAMBDA segs : segs[Len(segs)], Split(path))

\* Byte-wise string order, as used by sort.Strings.
RECURSIVE Less(_, _)
Less(x, y) ==
    ByValue2(LAMBDA a, b :
                IF b = "" THEN FALSE
                ELSE IF a = "" THEN TRUE
                ELSE IF Head(a) = Head(b) THEN Less(Tail(a), Tail(b))
                ELSE Ord(Head(a)) < Ord(Head(b)),
             x, y)

RECURSIVE Insert(_, _)
Insert(elem, seq) ==
    ByValue2(LAMBDA x, sorted :
                IF sorted = <<>> THEN <<x>>
                ELSE IF Less(sorted[1], x)
                     THEN <<sorted[1]>> \o Insert(x, Tail(sorted))
                     ELSE <<x>> \o sorted,
             elem, seq)

\* sort.Strings
RECURSIVE SortStrings(_)
SortStrings(paths) ==
    ByValue(LAMBDA seq :
                IF seq = <<>> THEN <<>>
                ELSE Insert(Head(seq), SortStrings(Tail(seq))),
            paths)

Contains(seq, x) == \E i \in 1..Len(seq) : seq[i] = x

Range(seq) == {seq[i] : i \in 1..Len(seq)}


\* The elements of a set of strings as a sequence in ascending order
\* (the order in which filepath.Walk reads a directory).
RECURSIVE SortedSeq(_)
SortedSeq(names) ==
    ByValue(LAMBDA S :
                IF S = {} THEN <<>>
                ELSE ByValue(LAMBDA m : <<m>> \o SortedSeq(S \ {m}),
                             CHOOSE x \in S : \A y \in S \ {x} : Less(x, y)),
            names)

\* All orders in which the elements of a sequence can be enumerated.
IterationOrders(seq) ==
    {[i \in 1..Len(seq) |-> seq[f[i]]] :
        f \in {g \in [1..Len(seq) -> 1..Len(seq)] :
                 \A i, j \in 1..Len(seq) : g[i] = g[j] => i = j}}

(***************************************************************************)
(* Program constants and pure functions of main.go                         *)
(***************************************************************************)

\* The repository root (environment variable DIR).
ROOT == "/r"

IGNORE_DIRS == <<".circleci", ".git", ".github", ".terraform">>

\* Recursion depth at which a goroutine stack is exhausted.
MaxDepth == 4

\* Zero value of ProjectConfig.
NoProjectConfig ==
    [Autoplan |-> [Enabled |-> FALSE, WhenModified |-> <<>>],
     Name |-> "", Dir |-> ""]

\* dependencies[key] of a Go map: the zero value when the key is missing.
MapGet(dependencies, key) ==
    ByValue(LAMBDA k : IF k \in DOMAIN dependencies THEN dependencies[k] ELSE <<>>,
            key)

\* unique() that keeps the repeats.
uniqueKeepsRepeats(paths) == paths

\* The loop of unique(): drop every later repeat, keep first-seen order.
RECURSIVE UniqueFrom(_, _)
UniqueFrom(rest, seen) ==
    ByValue2(LAMBDA paths, uniquePaths :
                IF paths = <<>> THEN uniquePaths
                ELSE IF Contains(uniquePaths, Head(paths))
                     THEN UniqueFrom(Tail(paths), uniquePaths)
                     ELSE UniqueFrom(Tail(paths), Append(uniquePaths, Head(paths))),
             rest, seen)

\* unique(): the list without its later repeats.
unique(paths) == UniqueFrom(paths, <<>>)

\* The loop of cleanPaths: strip the project prefix once, then Clean.
CleanEach(whenModifiedPaths, project) ==
    ByValue(LAMBDA paths :
                [i \in 1..Len(paths) |->
                    Clean(ReplaceFirst(paths[i], project \o "/", ""))],
            whenModifiedPaths)

\* cleanPaths that does not add the pattern of the project itself.
cleanPathsWithoutOwn(paths, project) ==
    SortStrings(unique(CleanEach(paths, project)))

cleanPaths(paths, project) ==
    SortStrings(unique(Append(CleanEach(paths, project), "**/*")))

\* The loop of getWhenModifiedPaths without the recursive call: only the
\* direct dependencies are listed.
DepLoopDirect(path, deps, dependencies, depth) ==
    [ok    |-> TRUE,
     paths |-> [k \in 1..Len(deps) |-> path \o "/" \o deps[k] \o "/**/*"]]

\* getWhenModifiedPaths. ok = FALSE when the recursion went deeper than
\* MaxDepth (the goroutine's stack is exhausted and the process dies).
RECURSIVE getWhenModifiedPaths(_, _, _)
RECURSIVE DepLoop(_, _, _, _)
\* The loop of getWhenModifiedPaths with the two appends exchanged: the
\* paths below a dependency come before the path of the dependency.
DepLoopPostOrder(path, deps, dependencies, depth) ==
    IF deps = <<>> THEN [ok |-> TRUE, paths |-> <<>>]
    ELSE LET dep == Head(deps) IN
         ByValue2(LAMBDA sub, rest :
                     IF ~sub.ok THEN [ok |-> FALSE, paths |-> <<>>]
                     ELSE [ok    |-> rest.ok,
                           paths |-> sub.paths \o <<path \o "/" \o dep \o "/**/*">> \o rest.paths],
                  getWhenModifiedPaths(path \o "/" \o dep, dependencies, depth + 1),
                  DepLoop(path, Tail(deps), dependencies, depth))

DepLoop(path, deps, dependencies, depth) ==
    IF deps = <<>> THEN [ok |-> TRUE, paths |-> <<>>]
    ELSE LET dep == Head(deps) IN
         ByValue2(LAMBDA sub, rest :
                     IF ~sub.ok THEN [ok |-> FALSE, paths |-> <<>>]
                     ELSE [ok    |-> rest.ok,
                           paths |-> <<path \o "/" \o dep \o "/**/*">> \o sub.paths \o rest.paths],
                  getWhenModifiedPaths(path \o "/" \o dep, dependencies, depth + 1),
                  DepLoop(path, Tail(deps), dependencies, depth))

\* getWhenModifiedPaths that gives up below MaxDepth and returns what it
\* has, as a depth guard would.
getWhenModifiedPathsGuarded(currentPath, dependencies, currentDepth) ==
    ByValue3(LAMBDA path, deps, depth :
                IF depth > MaxDepth THEN [ok |-> TRUE, paths |-> <<>>]
                ELSE DepLoop(path, deps, dependencies, depth),
             currentPath, MapGet(dependencies, Clean(currentPath)), currentDepth)

\* getWhenModifiedPaths that keeps the cleaned path (path = filepath.Clean(path))
\* and so passes normalized paths down.
getWhenModifiedPathsEager(currentPath, dependencies, currentDepth) ==
    ByValue3(LAMBDA path, deps, depth :
                IF depth > MaxDepth THEN [ok |-> FALSE, paths |-> <<>>]
                ELSE DepLoop(Clean(path), deps, dependencies, depth),
             currentPath, MapGet(dependencies, Clean(currentPath)), currentDepth)

getWhenModifiedPaths(currentPath, dependencies, currentDepth) ==
    ByValue3(LAMBDA path, deps, depth :
                IF depth > MaxDepth THEN [ok |-> FALSE, paths |-> <<>>]
                ELSE DepLoop(path, deps, dependencies, depth),
             currentPath, MapGet(dependencies, Clean(currentPath)), currentDepth)

makeProjectConfig(project, dependencies) ==
    LET whenModifiedPaths   == getWhenModifiedPaths(project, dependencies, 1).paths
        cleanedPaths        == cleanPaths(whenModifiedPaths, project)
        projectRelativePath == ReplaceFirst(project, ROOT \o "/", "")
    IN  [Autoplan |-> [Enabled |-> TRUE, WhenModified |-> cleanedPaths],
         Name |-> projectRelativePath,
         Dir  |-> projectRelativePath]

\* yaml.Unmarshal into AtlantisConfig and yaml.Marshal of it: the struct
\* tags map each field to its key.
UnmarshalProject(p) ==
    [Autoplan |-> [Enabled |-> p.autoplan.enabled,
                   WhenModified |-> p.autoplan.when_modified],
     Name |-> p.name, Dir |-> p.dir]

MarshalProject(p) ==
    [autoplan |-> [enabled |-> p.Autoplan.Enabled,
                   when_modified |-> p.Autoplan.WhenModified],
     name |-> p.Name, dir |-> p.Dir]

Unmarshal(doc) ==
    [Automerge                 |-> doc.automerge,
     DeleteSourceBranchOnMerge |-> doc.delete_source_branch_on_merge,
     ParallelApply             |-> doc.parallel_apply,
     ParallelPlan              |-> doc.parallel_plan,
     Projects                  |-> [i \in 1..Len(doc.projects) |-> UnmarshalProject(doc.projects[i])],
     Version                   |-> doc.version]

Marshal(c) ==
    [automerge                     |-> c.Automerge,
     delete_source_branch_on_merge |-> c.DeleteSourceBranchOnMerge,
     parallel_apply                |-> c.ParallelApply,
     parallel_plan                 |-> c.ParallelPlan,
     projects                      |-> [i \in 1..Len(c.Projects) |-> MarshalProject(c.Projects[i])],
     version                       |-> c.Version]

\* Zero value of AtlantisConfig.
NoConfig ==
    [Automerge |-> FALSE, DeleteSourceBranchOnMerge |-> FALSE,
     ParallelApply |-> FALSE, ParallelPlan |-> FALSE,
     Projects |-> <<>>, Version |-> 0]

(***************************************************************************)
(* State                                                                   *)
(***************************************************************************)

VARIABLES
    fs,              \* the directory tree: dirs, files, unreadable dirs, modules
    stored,          \* atlantis.yaml on disk: [state, doc]
    pc,              \* position of main
    todo,            \* paths filepath.Walk has still to visit, next first
    projects,        \* getProjectsAndDependencies: projects
    dependencies,    \* getProjectsAndDependencies: dependencies
    reported,        \* per module directory, module.ModuleCalls as ranged over
    atlantisConfig,  \* main: the configuration read from atlantis.yaml
    config,          \* addProjectsToConfig: its copy of atlantisConfig
    wg,              \* addProjectsToConfig: the WaitGroup counter
    wpc,             \* position of each worker goroutine
    wcfg,            \* projectConfig of each worker goroutine
    wsnap,           \* the slice each worker read for its append
    fatalAt,         \* what ended the process ("" while it is alive)
    run,             \* number of the current run of main
    writes,          \* number of times this run changed atlantis.yaml
    storedAtStart,   \* atlantis.yaml as it was when this run started
    out              \* the projects list written by each completed run

vars == <<fs, stored, pc, todo, projects, dependencies, reported,
          atlantisConfig, config, wg, wpc, wcfg, wsnap, fatalAt,
          run, writes, storedAtStart, out>>

\* Number of consecutive runs of main that are modelled.
MaxRuns == 2

(***************************************************************************)
(* The directory trees and configuration files the runs start from         *)
(***************************************************************************)

Dirs ==
    {ROOT,
     "/r/.circleci", "/r/.git", "/r/.github",
     "/r/modules", "/r/modules/module1", "/r/modules/module2",
     "/r/modules/module2/files",
     "/r/project1", "/r/project1/.terraform", "/r/project1/.terraform/vpc",
     "/r/project1/files",
     "/r/project2"}

Files == {"/r/atlantis.yaml"}

\* Module calls of project1: none, one, two branches to module2, the same
\* address twice, an address that does not exist.
Project1Calls ==
    {<<>>,
     <<"../modules/module1">>,
     <<"../modules/module1", "../modules/module2">>,
     <<"../modules/module1", "../modules/module1">>,
     <<"../modules/module3", "../modules/module2">>}

Project2Calls == {<<>>, <<"../modules/module2">>}

Module1Calls == {<<>>, <<"../module2">>}

Module2Calls == {<<>>, <<"../module1">>}

Faults == {"none", "unreadable", "broken"}

Module(backend, broken, calls) ==
    [backend |-> backend, broken |-> broken, calls |-> calls]

Tree(c1, c2, cm1, cm2, rootBackend, fault) ==
    [dirs       |-> Dirs,
     files      |-> Files,
     unreadable |-> IF fault = "unreadable" THEN {"/r/modules"} ELSE {},
     modules    |->
        [d \in {"/r/project1", "/r/project2", "/r/modules/module1",
                "/r/modules/module2", "/r/project1/.terraform/vpc"}
               \cup (IF rootBackend THEN {ROOT} ELSE {}) |->
            CASE d = "/r/project1"        -> Module(TRUE, FALSE, c1)
              [] d = "/r/project2"        -> Module(TRUE, FALSE, c2)
              [] d = "/r/modules/module1" -> Module(FALSE, fault = "broken", cm1)
              [] d = "/r/modules/module2" -> Module(FALSE, FALSE, cm2)
              [] OTHER                    -> Module(TRUE, FALSE, <<>>)]]

StaleProject ==
    [autoplan |-> [enabled |-> TRUE, when_modified |-> <<"**/*", "../old/**/*">>],
     name |-> "gone", dir |-> "gone"]

\* atlantis.yaml before the first run: missing, the file of the test data,
\* or a file that already lists a project.
BaseDocs ==
    {[automerge |-> TRUE, delete_source_branch_on_merge |-> TRUE,
      parallel_apply |-> TRUE, parallel_plan |-> TRUE,
      projects |-> <<>>, version |-> 3],
     [automerge |-> FALSE, delete_source_branch_on_merge |-> TRUE,
      parallel_apply |-> FALSE, parallel_plan |-> TRUE,
      projects |-> <<StaleProject>>, version |-> 2]}

NoDoc == Marshal(NoConfig)

StoredFiles ==
    {[state |-> "absent", doc |-> NoDoc]}
        \cup {[state |-> "ok", doc |-> d] : d \in BaseDocs}

\* The state in which main starts on tree t with file s as its n-th run.
Start(t, s, n, o) ==
    /\ fs = t
    /\ stored = s
    /\ pc = "walk"
    /\ todo = <<ROOT>>
    /\ projects = <<>>
    /\ dependencies = <<>>
    /\ reported = <<>>
    /\ atlantisConfig = NoConfig
    /\ config = NoConfig
    /\ wg = 0
    /\ wpc = <<>>
    /\ wcfg = <<>>
    /\ wsnap = <<>>
    /\ fatalAt = ""
    /\ run = n
    /\ writes = 0
    /\ storedAtStart = s
    /\ out = o

Init ==
    \E c1 \in Project1Calls, c2 \in Project2Calls,
       cm1 \in Module1Calls, cm2 \in Module2Calls,
       rootBackend \in BOOLEAN, fault \in Faults, s \in StoredFiles :
        Start(Tree(c1, c2, cm1, cm2, rootBackend, fault), s, 1, <<>>)

(***************************************************************************)
(* getProjectsAndDependencies                                              *)
(***************************************************************************)

\* fileExists that takes every path to exist.
fileExistsAlways(path) == TRUE

fileExists(path) == path \in fs.dirs \cup fs.files

\* The test of the ignore list left out.
IsIgnoredNever(path) == FALSE

IsIgnored(path) == Contains(IGNORE_DIRS, Base(path))

IsModuleDir(path) == path \in DOMAIN fs.modules

\* The entries of a directory, in the order filepath.Walk visits them.
Children(dir) ==
    SortedSeq({e \in fs.dirs \cup fs.files :
                 /\ e # dir
                 /\ HasPrefix(e, dir \o "/")
                 /\ Index(SubSeq(e, Len(dir) + 2, Len(e)), "/") = 0})

\* The loop over module.ModuleCalls: keep an address when it exists on disk
\* and is not already a dependency of the directory.
RECURSIVE AddModuleCalls(_, _, _)
AddModuleCalls(path, calls, deps) ==
    IF calls = <<>> THEN deps
    ELSE LET SourceAddr == Head(calls)
             absPath    == JoinPath(path, SourceAddr)
         IN  IF fileExists(absPath) /\ ~Contains(deps, SourceAddr)
             THEN AddModuleCalls(path, Tail(calls), Append(deps, SourceAddr))
             ELSE AddModuleCalls(path, Tail(calls), deps)

MapSet(m, key, value) ==
    [k \in DOMAIN m \cup {key} |-> IF k = key THEN value ELSE m[k]]

Fatal(cause) ==
    /\ pc' = "fatal"
    /\ fatalAt' = cause

WalkUnchanged ==
    UNCHANGED <<fs, stored, atlantisConfig, config, wg, wpc, wcfg, wsnap,
                run, writes, storedAtStart, out>>

\* The walk function is called with an error: the run ends.
WalkError ==
    /\ pc = "walk" /\ todo # <<>>
    /\ Head(todo) \in fs.unreadable
    /\ Fatal("walk")
    /\ UNCHANGED <<todo, projects, dependencies, reported>>
    /\ WalkUnchanged

\* Not a directory: nothing to do.
WalkFile ==
    /\ pc = "walk" /\ todo # <<>>
    /\ Head(todo) \notin fs.unreadable
    /\ Head(todo) \notin fs.dirs
    /\ todo' = Tail(todo)
    /\ UNCHANGED <<pc, fatalAt, projects, dependencies, reported>>
    /\ WalkUnchanged

\* A directory of IGNORE_DIRS: filepath.SkipDir.
WalkSkipDir ==
    /\ pc = "walk" /\ todo # <<>>
    /\ Head(todo) \notin fs.unreadable
    /\ Head(todo) \in fs.dirs
    /\ IsIgnored(Head(todo))
    /\ todo' = Tail(todo)
    /\ UNCHANGED <<pc, fatalAt, projects, dependencies, reported>>
    /\ WalkUnchanged

\* Only a module directory gets an entry.
WalkDirModulesOnly ==
    /\ pc = "walk" /\ todo # <<>>
    /\ LET path == Head(todo) IN
       /\ path \notin fs.unreadable
       /\ path \in fs.dirs
       /\ ~IsIgnored(path)
       /\ IF ~IsModuleDir(path)
          THEN UNCHANGED <<dependencies, projects, reported>>
          ELSE /\ ~fs.modules[path].broken
               /\ projects' = IF fs.modules[path].backend
                              THEN Append(projects, path)
                              ELSE projects
               /\ \E ModuleCalls \in IterationOrders(fs.modules[path].calls) :
                    /\ reported' = MapSet(reported, path, ModuleCalls)
                    /\ dependencies' = MapSet(dependencies, path,
                                              AddModuleCalls(path, ModuleCalls, <<>>))
       /\ todo' = Children(path) \o Tail(todo)
    /\ UNCHANGED <<pc, fatalAt>>
    /\ WalkUnchanged

\* Any other directory gets an entry; a module directory is loaded.
WalkDir ==
    /\ pc = "walk" /\ todo # <<>>
    /\ LET path == Head(todo) IN
       /\ path \notin fs.unreadable
       /\ path \in fs.dirs
       /\ ~IsIgnored(path)
       /\ IF ~IsModuleDir(path)
          THEN /\ dependencies' = MapSet(dependencies, path, <<>>)
               /\ UNCHANGED <<projects, reported>>
          ELSE /\ ~fs.modules[path].broken
               /\ projects' = IF fs.modules[path].backend
                              THEN Append(projects, path)
                              ELSE projects
               /\ \E ModuleCalls \in IterationOrders(fs.modules[path].calls) :
                    /\ reported' = MapSet(reported, path, ModuleCalls)
                    /\ dependencies' = MapSet(dependencies, path,
                                              AddModuleCalls(path, ModuleCalls, <<>>))
       /\ todo' = Children(path) \o Tail(todo)
    /\ UNCHANGED <<pc, fatalAt>>
    /\ WalkUnchanged

\* LoadConfigDir reports errors: log.Fatal.
WalkParseError ==
    /\ pc = "walk" /\ todo # <<>>
    /\ LET path == Head(todo) IN
       /\ path \notin fs.unreadable
       /\ path \in fs.dirs
       /\ ~IsIgnored(path)
       /\ IsModuleDir(path)
       /\ fs.modules[path].broken
       /\ dependencies' = MapSet(dependencies, path, <<>>)
    /\ Fatal("inspect")
    /\ UNCHANGED <<todo, projects, reported>>
    /\ WalkUnchanged

\* filepath.Walk is through: return projects, dependencies.
WalkReturn ==
    /\ pc = "walk" /\ todo = <<>>
    /\ pc' = "read"
    /\ UNCHANGED <<fatalAt, todo, projects, dependencies, reported>>
    /\ WalkUnchanged

(***************************************************************************)
(* readAtlantisYaml                                                        *)
(***************************************************************************)

MainUnchanged ==
    UNCHANGED <<fs, todo, projects, dependencies, reported, run, storedAtStart>>

ReadOk ==
    /\ pc = "read"
    /\ stored.state = "ok"
    /\ atlantisConfig' = Unmarshal(stored.doc)
    /\ pc' = "add"
    /\ UNCHANGED <<stored, config, wg, wpc, wcfg, wsnap, fatalAt, writes, out>>
    /\ MainUnchanged

\* The error of the read is dropped: main goes on with an empty configuration.
ReadFailIgnored ==
    /\ pc = "read"
    /\ stored.state # "ok"
    /\ atlantisConfig' = NoConfig
    /\ pc' = "add"
    /\ UNCHANGED <<stored, config, wg, wpc, wcfg, wsnap, fatalAt, writes, out>>
    /\ MainUnchanged

\* ReadFile or Unmarshal fails: log.Fatal.
ReadFail ==
    /\ pc = "read"
    /\ stored.state # "ok"
    /\ Fatal("read")
    /\ UNCHANGED <<stored, atlantisConfig, config, wg, wpc, wcfg, wsnap, writes, out>>
    /\ MainUnchanged

(***************************************************************************)
(* addProjectsToConfig                                                     *)
(***************************************************************************)

Workers == 1..Len(projects)

\* The Projects of the configuration are kept and appended to.
KeepProjects(c) == c.Projects

\* The Projects the function starts from.
InitialProjects(c) == <<>>

\* Empty Projects, wg.Add(len(projects)), one goroutine per project.
Spawn ==
    /\ pc = "add"
    /\ config' = [atlantisConfig EXCEPT !.Projects = InitialProjects(atlantisConfig)]
    /\ wg' = Len(projects)
    /\ wpc' = [i \in Workers |-> "start"]
    /\ wcfg' = [i \in Workers |-> NoProjectConfig]
    /\ wsnap' = [i \in Workers |-> <<>>]
    /\ pc' = "wait"
    /\ UNCHANGED <<stored, atlantisConfig, fatalAt, writes, out>>
    /\ MainUnchanged

WorkerUnchanged ==
    /\ UNCHANGED <<stored, atlantisConfig, writes, out>>
    /\ MainUnchanged

\* The worker empties the entry of its project in the shared map once it
\* has resolved it.
WorkerMakeConsumes(i) ==
    /\ pc = "wait" /\ wpc[i] = "start"
    /\ getWhenModifiedPaths(projects[i], dependencies, 1).ok
    /\ wcfg' = [wcfg EXCEPT ![i] = makeProjectConfig(projects[i], dependencies)]
    /\ wpc' = [wpc EXCEPT ![i] = "made"]
    /\ dependencies' = MapSet(dependencies, projects[i], <<>>)
    /\ UNCHANGED <<pc, fatalAt, config, wg, wsnap, stored, atlantisConfig,
                   writes, out, fs, todo, projects, reported, run, storedAtStart>>

\* projectConfig := makeProjectConfig(projects[i], dependencies)
WorkerMake(i) ==
    /\ pc = "wait" /\ wpc[i] = "start"
    /\ getWhenModifiedPaths(projects[i], dependencies, 1).ok
    /\ wcfg' = [wcfg EXCEPT ![i] = makeProjectConfig(projects[i], dependencies)]
    /\ wpc' = [wpc EXCEPT ![i] = "made"]
    /\ UNCHANGED <<pc, fatalAt, config, wg, wsnap>>
    /\ WorkerUnchanged

\* The recursion of getWhenModifiedPaths does not end: the stack of the
\* goroutine is exhausted and the process dies.
WorkerStackOverflow(i) ==
    /\ pc = "wait" /\ wpc[i] = "start"
    /\ ~getWhenModifiedPaths(projects[i], dependencies, 1).ok
    /\ Fatal("stack")
    /\ UNCHANGED <<config, wg, wpc, wcfg, wsnap>>
    /\ WorkerUnchanged

\* append(atlantisConfig.Projects, projectConfig): read of the shared slice.
WorkerLoad(i) ==
    /\ pc = "wait" /\ wpc[i] = "made"
    /\ wsnap' = [wsnap EXCEPT ![i] = config.Projects]
    /\ wpc' = [wpc EXCEPT ![i] = "loaded"]
    /\ UNCHANGED <<pc, fatalAt, config, wg, wcfg>>
    /\ WorkerUnchanged

\* atlantisConfig.Projects = ...: write of the shared slice.
WorkerStore(i) ==
    /\ pc = "wait" /\ wpc[i] = "loaded"
    /\ config' = [config EXCEPT !.Projects = Append(wsnap[i], wcfg[i])]
    /\ wsnap' = [wsnap EXCEPT ![i] = <<>>]
    /\ wpc' = [wpc EXCEPT ![i] = "stored"]
    /\ UNCHANGED <<pc, fatalAt, wg, wcfg>>
    /\ WorkerUnchanged

\* defer wg.Done()
WorkerDone(i) ==
    /\ pc = "wait" /\ wpc[i] = "stored"
    /\ wg' = wg - 1
    /\ wpc' = [wpc EXCEPT ![i] = "done"]
    /\ UNCHANGED <<pc, fatalAt, config, wcfg, wsnap>>
    /\ WorkerUnchanged

\* wg.Wait() that does not wait for the counter.
WaitReturnEarly ==
    /\ pc = "wait"
    /\ pc' = "write"
    /\ UNCHANGED <<stored, atlantisConfig, config, wg, wpc, wcfg, wsnap,
                   fatalAt, writes, out>>
    /\ MainUnchanged

\* wg.Wait() returns; return atlantisConfig.
WaitReturn ==
    /\ pc = "wait"
    /\ wg = 0
    /\ pc' = "write"
    /\ UNCHANGED <<stored, atlantisConfig, config, wg, wpc, wcfg, wsnap,
                   fatalAt, writes, out>>
    /\ MainUnchanged

(***************************************************************************)
(* writeAtlantisYaml                                                       *)
(***************************************************************************)

WriteOk ==
    /\ pc = "write"
    /\ stored' = [state |-> "ok", doc |-> Marshal(config)]
    /\ writes' = writes + 1
    /\ out' = Append(out, config.Projects)
    /\ pc' = "done"
    /\ UNCHANGED <<atlantisConfig, config, wg, wpc, wcfg, wsnap, fatalAt>>
    /\ MainUnchanged

\* WriteFile fails: before it touched the file, or after it truncated it.
WriteFail ==
    /\ pc = "write"
    /\ \/ UNCHANGED <<stored, writes>>
       \/ /\ stored' = [state |-> "corrupt", doc |-> NoDoc]
          /\ writes' = writes + 1
    /\ Fatal("write")
    /\ UNCHANGED <<atlantisConfig, config, wg, wpc, wcfg, wsnap, out>>
    /\ MainUnchanged

(***************************************************************************)
(* Specifications                                                          *)
(***************************************************************************)

Next ==
    \/ WalkError
    \/ WalkFile
    \/ WalkSkipDir
    \/ WalkDir
    \/ WalkParseError
    \/ WalkReturn
    \/ ReadOk
    \/ ReadFail
    \/ Spawn
    \/ \E i \in DOMAIN wpc : WorkerMake(i)
    \/ \E i \in DOMAIN wpc : WorkerStackOverflow(i)
    \/ \E i \in DOMAIN wpc : WorkerLoad(i)
    \/ \E i \in DOMAIN wpc : WorkerStore(i)
    \/ \E i \in DOMAIN wpc : WorkerDone(i)
    \/ WaitReturn
    \/ WriteOk
    \/ WriteFail

\* One run of main on every tree and configuration file.
Spec == Init /\ [][Next]_vars

\* The steps of the goroutine started for projects[i].
Worker(i) ==
    /\ i \in DOMAIN wpc
    /\ \/ WorkerMake(i)
       \/ WorkerStackOverflow(i)
       \/ WorkerLoad(i)
       \/ WorkerStore(i)
       \/ WorkerDone(i)

\* The walk finds at most as many projects as the tree has module directories
\* that may declare a backend: the root, project1 and project2.
MaxProjects == 3

\* Every tree with a readable module in each directory and the atlantis.yaml
\* of the test data, and the tree of the test data with each fault and each
\* other atlantis.yaml.
InitFair ==
    \E c1 \in Project1Calls, c2 \in Project2Calls,
       cm1 \in Module1Calls, cm2 \in Module2Calls,
       rootBackend \in BOOLEAN, fault \in Faults, s \in StoredFiles :
        /\ (fault # "none" \/ s.state # "ok" \/ s.doc.projects # <<>>) =>
              /\ c1 = <<"../modules/module1">>
              /\ c2 = <<"../modules/module2">>
              /\ cm1 = <<"../module2">>
              /\ cm2 = <<>>
              /\ ~rootBackend
        /\ Start(Tree(c1, c2, cm1, cm2, rootBackend, fault), s, 1, <<>>)

\* One run of main where the Go scheduler lets every goroutine that can take
\* a step take it eventually: each worker, and main blocked in wg.Wait().
SpecFair ==
    /\ InitFair
    /\ [][Next]_vars
    /\ \A i \in 1..MaxProjects : WF_vars(Worker(i))
    /\ WF_vars(WaitReturn)

\* main is started again on the same tree, with the atlantis.yaml the
\* previous run wrote.
Rerun ==
    /\ pc = "done"
    /\ run < MaxRuns
    /\ run' = run + 1
    /\ storedAtStart' = stored
    /\ pc' = "walk"
    /\ todo' = <<ROOT>>
    /\ projects' = <<>>
    /\ dependencies' = <<>>
    /\ reported' = <<>>
    /\ atlantisConfig' = NoConfig
    /\ config' = NoConfig
    /\ wg' = 0
    /\ wpc' = <<>>
    /\ wcfg' = <<>>
    /\ wsnap' = <<>>
    /\ writes' = 0
    /\ UNCHANGED <<fs, stored, fatalAt, out>>

\* The tree of the test data, with and without a cycle between the modules.
InitRerun ==
    \E cm2 \in Module2Calls, fault \in Faults, s \in StoredFiles :
        Start(Tree(<<"../modules/module1">>, <<"../modules/module2">>,
                   <<"../module2">>, cm2, FALSE, fault), s, 1, <<>>)

NextRerun == Next \/ Rerun

SpecRerun == InitRerun /\ [][NextRerun]_vars

(***************************************************************************)
(* Properties                                                              *)
(***************************************************************************)

\* addProjectsToConfig has returned; config is what it returned.
Returned == pc \in {"write", "done"} \/ (pc = "fatal" /\ fatalAt = "write")

\* Worker i has built its record.
Built(i) == i \in DOMAIN wpc /\ wpc[i] # "start"

\* makeProjectConfig has just returned the record of worker i.
Made(i) == i \in DOMAIN wpc /\ wpc[i] = "made"

\* The directories the dependency addresses of the directories of S lead to.
Successors(S) ==
    UNION {{JoinPath(d, a) : a \in Range(MapGet(dependencies, d))} : d \in S}

RECURSIVE ReachFrom(_)
ReachFrom(S) ==
    LET T == S \cup Successors(S) IN
    IF T = S THEN S ELSE ReachFrom(T)

\* The directories reachable from project through one or more addresses.
ReachDirs(project) == ReachFrom(Successors({project}))

IsDirPattern(x) ==
    Len(x) > 5 /\ SubSeq(x, Len(x) - 4, Len(x)) = "/**/*"

\* The path a "<path>/**/*" pattern is about.
Stem(x) == SubSeq(x, 1, Len(x) - 5)

AscendingNoRepeat(seq) ==
    \A j, k \in 1..Len(seq) :
        j < k => seq[j] # seq[k] /\ ~Less(seq[k], seq[j])

Count(seq, x) == Cardinality({k \in 1..Len(seq) : seq[k] = x})

\* C1: when addProjectsToConfig returns, Projects holds one record per
\* project and its i-th record is the record built for the i-th project.
C1_DiscoveryOrder ==
    Returned =>
        /\ Len(config.Projects) = Len(projects)
        /\ \A i \in 1..Len(projects) : config.Projects[i] = wcfg[i]

\* C2: no two workers are between the read and the write of their append
\* to the shared Projects slice at the same time, and the record of every
\* worker that has written is in the slice.
C2_NoSharedAppend ==
    /\ \A i, j \in DOMAIN wpc :
          i # j => ~(wpc[i] = "loaded" /\ wpc[j] = "loaded")
    /\ \A i \in DOMAIN wpc :
          wpc[i] \in {"stored", "done"} => Contains(config.Projects, wcfg[i])

\* C3: the patterns of a project are "**/*" and, for every directory
\* reachable from the project, a clean project-relative path of that
\* directory followed by "/**/*"; there is no other pattern.
C3_ClosurePatterns ==
    \A i \in DOMAIN wpc :
        Made(i) =>
            LET P        == projects[i]
                patterns == Range(wcfg[i].Autoplan.WhenModified)
                others   == patterns \ {"**/*"}
                reached  == ReachDirs(P)
            IN  /\ "**/*" \in patterns
                /\ \A x \in others :
                      /\ IsDirPattern(x)
                      /\ Clean(Stem(x)) = Stem(x)
                      /\ ~HasPrefix(x, "/")
                      /\ JoinPath(P, Stem(x)) \in reached
                /\ {JoinPath(P, Stem(x)) : x \in others} = reached

\* project1 -> ../modules/module1 -> ../module2 has been resolved to the three
\* patterns of the example.
C3_Witness ==
    /\ Made(1)
    /\ projects[1] = "/r/project1"
    /\ dependencies["/r/project1"] = <<"../modules/module1">>
    /\ dependencies["/r/modules/module1"] = <<"../module2">>
    /\ dependencies["/r/modules/module2"] = <<>>
    /\ wcfg[1].Autoplan.WhenModified =
          <<"**/*", "../modules/module1/**/*", "../modules/module2/**/*">>

\* C4: the pattern list of a project is in ascending order and has no two
\* equal entries.
C4_SortedUnique ==
    \A i \in DOMAIN wpc :
        Made(i) => AscendingNoRepeat(wcfg[i].Autoplan.WhenModified)

\* module2 is reached from project1 directly and through module1, and is
\* listed once.
C4_Witness ==
    /\ Made(1)
    /\ projects[1] = "/r/project1"
    /\ Contains(dependencies["/r/project1"], "../modules/module2")
    /\ Contains(dependencies["/r/project1"], "../modules/module1")
    /\ dependencies["/r/modules/module1"] = <<"../module2">>
    /\ Len(getWhenModifiedPaths("/r/project1", dependencies, 1).paths) = 3
    /\ Len(wcfg[1].Autoplan.WhenModified) = 3

\* C5: the pattern list of a project contains "**/*" exactly once.
C5_OwnPatternOnce ==
    \A i \in DOMAIN wpc :
        Made(i) => Count(wcfg[i].Autoplan.WhenModified, "**/*") = 1

\* A project without dependencies has the pattern list ["**/*"].
C5_Witness ==
    \E i \in DOMAIN wpc :
        /\ Made(i)
        /\ dependencies[projects[i]] = <<>>
        /\ wcfg[i].Autoplan.WhenModified = <<"**/*">>

\* A directory of IGNORE_DIRS, or a directory below one.
InIgnoredSubtree(path) ==
    \E e \in Range(Split(path)) : Contains(IGNORE_DIRS, e)

\* A directory strictly below a directory of IGNORE_DIRS.
BelowIgnored(path) ==
    LET segs == Split(path) IN
    \E k \in 1..(Len(segs) - 1) : Contains(IGNORE_DIRS, segs[k])

\* C6: while getProjectsAndDependencies walks and when it returns, no
\* ignored directory and no descendant of one is a key of the dependency
\* graph or a project, none is loaded as a module, and the walk never goes
\* below an ignored directory.
C6_IgnoredPruned ==
    pc \in {"walk", "read"} =>
        /\ \A d \in DOMAIN dependencies : ~InIgnoredSubtree(d)
        /\ \A d \in Range(projects) : ~InIgnoredSubtree(d)
        /\ \A d \in DOMAIN reported : ~InIgnoredSubtree(d)
        /\ \A d \in Range(todo) : ~BelowIgnored(d)

\* The walk is through a tree with a backend module below .terraform.
C6_Witness ==
    /\ pc = "read"
    /\ "/r/project1/.terraform/vpc" \in DOMAIN fs.modules
    /\ fs.modules["/r/project1/.terraform/vpc"].backend
    /\ "/r/project1" \in DOMAIN dependencies
    /\ "/r/project2" \in Range(projects)

\* C7: what addProjectsToConfig returns holds only records built from the
\* current project list, none of the records it was given, and the scalar
\* options it was given.
C7_ProjectsReplaced ==
    Returned =>
        /\ \A r \in Range(config.Projects) :
              /\ \E i \in DOMAIN wcfg : Built(i) /\ r = wcfg[i]
              /\ ~Contains(atlantisConfig.Projects, r)
        /\ config.Automerge = atlantisConfig.Automerge
        /\ config.DeleteSourceBranchOnMerge = atlantisConfig.DeleteSourceBranchOnMerge
        /\ config.ParallelApply = atlantisConfig.ParallelApply
        /\ config.ParallelPlan = atlantisConfig.ParallelPlan
        /\ config.Version = atlantisConfig.Version

\* addProjectsToConfig was given a configuration that lists a project and
\* has returned one with new records.
C7_Witness ==
    /\ pc = "write"
    /\ atlantisConfig.Projects # <<>>
    /\ config.Projects # <<>>
    /\ config.Version = 2

\* C8: two runs on the same tree, the second starting from the file the
\* first wrote, write the same projects list.
C8_Idempotent ==
    Len(out) = 2 => out[1] = out[2]

\* A directory the walk visits cannot be read or loaded.
WalkFails ==
    \/ \E d \in fs.unreadable : ~BelowIgnored(d)
    \/ \E d \in DOMAIN fs.modules : fs.modules[d].broken /\ ~InIgnoredSubtree(d)

ReadFails == storedAtStart.state # "ok"

\* C9: a run changes atlantis.yaml at most once, as its last step, after
\* the walk, the read and every worker are through; when the walk, a
\* module or the read fails the run never gets to the write and the file
\* stays as it was.
C9_WriteLast ==
    /\ writes <= 1
    /\ stored # storedAtStart => writes = 1
    /\ writes = 1 =>
          /\ pc = "done" \/ (pc = "fatal" /\ fatalAt = "write")
          /\ todo = <<>>
          /\ \A i \in DOMAIN wpc : wpc[i] = "done"
          /\ ~WalkFails /\ ~ReadFails
    /\ (WalkFails \/ ReadFails) =>
          /\ stored = storedAtStart
          /\ pc \notin {"add", "wait", "write", "done"}
    /\ pc = "fatal" /\ fatalAt \in {"walk", "inspect", "read", "stack"} =>
          stored = storedAtStart

\* A module could not be loaded; the file that lists a project is still there.
C9_Witness ==
    /\ pc = "fatal"
    /\ fatalAt = "inspect"
    /\ stored.state = "ok"
    /\ stored.doc.projects # <<>>
    /\ writes = 0

\* The addresses of calls that exist below dir, each at its first
\* occurrence.
KeptAddresses(dir, calls) ==
    LET keep == {k \in 1..Len(calls) :
                    /\ JoinPath(dir, calls[k]) \in fs.dirs \cup fs.files
                    /\ \A j \in 1..(k - 1) : calls[j] # calls[k]}
        f[n \in 0..Len(calls)] ==
            IF n = 0 THEN <<>>
            ELSE IF n \in keep THEN Append(f[n - 1], calls[n]) ELSE f[n - 1]
    IN  f[Len(calls)]

\* C10: while getProjectsAndDependencies walks and when it returns, the
\* dependency sequence of a directory is the list of addresses its module
\* reported, without the addresses that do not exist below the directory
\* and without repeats, in the reported order; no pattern of a project is
\* about a path that does not exist.
C10_ExistingOnce ==
    /\ pc \in {"walk", "read"} =>
          \A d \in DOMAIN dependencies :
              dependencies[d] = KeptAddresses(d, MapGet(reported, d))
    /\ \A i \in DOMAIN wpc :
          Made(i) =>
            \A x \in Range(wcfg[i].Autoplan.WhenModified) \ {"**/*"} :
                JoinPath(projects[i], Stem(x)) \in fs.dirs \cup fs.files

\* project1 calls ../modules/module3, which does not exist, and
\* ../modules/module2; its patterns are built.
C10_Witness ==
    /\ Made(1)
    /\ projects[1] = "/r/project1"
    /\ Contains(reported["/r/project1"], "../modules/module3")
    /\ dependencies["/r/project1"] = <<"../modules/module2">>
    /\ wcfg[1].Autoplan.WhenModified = <<"**/*", "../modules/module2/**/*">>

\* The directories of the tree that are not in or below a directory of
\* IGNORE_DIRS: the directories the walk function gets to.
WalkedDirs == {d \in fs.dirs : ~InIgnoredSubtree(d)}

\* C11: when getProjectsAndDependencies returns, the keys of the dependency
\* graph are the directories the walk visited outside the ignored subtrees,
\* no file and no ignored directory is a key, and a directory that is not a
\* module has the empty sequence.
C11_KeysAreWalkedDirs ==
    pc = "read" =>
        /\ DOMAIN dependencies = WalkedDirs
        /\ DOMAIN dependencies \cap fs.files = {}
        /\ \A d \in DOMAIN dependencies :
              ~IsModuleDir(d) => dependencies[d] = <<>>

\* The walk of the test data is through: the directories without modules
\* have an entry too.
C11_Witness ==
    /\ pc = "read"
    /\ dependencies["/r"] = <<>>
    /\ dependencies["/r/modules"] = <<>>
    /\ dependencies["/r/project1/files"] = <<>>
    /\ dependencies["/r/modules/module2/files"] = <<>>
    /\ dependencies["/r/project1"] = <<"../modules/module1">>
    /\ Cardinality(DOMAIN dependencies) = 8

\* A directory that is reachable from itself can be reached from project.
CycleReachable(project) ==
    \E D \in {Clean(project)} \cup ReachDirs(project) : D \in ReachDirs(D)

\* C12: when a cycle of the dependency graph can be reached from a project,
\* getWhenModifiedPaths never returns for it: the recursion goes deeper than
\* any MaxDepth, the worker never gets its record, and the only end is the
\* exhausted stack; without a cycle the recursion returns.
C12_CycleNeverReturns ==
    \A i \in DOMAIN wpc :
        /\ Made(i) => ~CycleReachable(projects[i])
        /\ (pc = "wait" /\ wpc[i] = "start") =>
              (CycleReachable(projects[i])
                  <=> ~getWhenModifiedPaths(projects[i], dependencies, 1).ok)
        /\ (pc = "fatal" /\ fatalAt = "stack" /\ wpc[i] # "start") =>
              ~CycleReachable(projects[i])

\* module1 and module2 call each other and project1 calls module1: the
\* process died of the recursion.
C12_Witness ==
    /\ pc = "fatal"
    /\ fatalAt = "stack"
    /\ dependencies["/r/modules/module1"] = <<"../module2">>
    /\ dependencies["/r/modules/module2"] = <<"../module1">>
    /\ Contains(dependencies["/r/project1"], "../modules/module1")
    /\ wpc[1] = "start"

\* C13: the record makeProjectConfig returns for a project is enabled, its
\* name and its dir are the same, and they are the path of the project
\* relative to ROOT, never the absolute path.
C13_RootRelativeName ==
    \A i \in DOMAIN wpc :
        Made(i) =>
            /\ wcfg[i].Autoplan.Enabled
            /\ wcfg[i].Name = wcfg[i].Dir
            /\ ~HasPrefix(wcfg[i].Name, "/")
            /\ JoinPath(ROOT, wcfg[i].Name) = projects[i]

\* C14: no worker exists before the walk is through, and no step after the
\* walk changes the dependency graph.
C14_GraphReadOnly ==
    /\ [](DOMAIN wpc # {} => pc # "walk" /\ todo = <<>>)
    /\ [][pc # "walk" => dependencies' = dependencies]_vars

\* addProjectsToConfig has returned with all three workers of a tree whose
\* project1 has two dependencies done.
C14_Witness ==
    /\ pc = "write"
    /\ Len(projects) = 3
    /\ \A i \in DOMAIN wpc : wpc[i] = "done"
    /\ Len(dependencies["/r/project1"]) = 2
    /\ dependencies["/r/modules/module1"] = <<"../module2">>

\* The paths path + "/" + d for the addresses d of the node of path.
Below(path) ==
    LET deps == MapGet(dependencies, Clean(path)) IN
    [k \in 1..Len(deps) |-> path \o "/" \o deps[k]]

\* Depth-first pre-order with a list of the paths still to visit: the first
\* one is listed and replaced by the paths below it.
RECURSIVE PreorderFrom(_, _)
PreorderFrom(pending, listed) ==
    IF pending = <<>> THEN listed
    ELSE PreorderFrom(Below(Head(pending)) \o Tail(pending),
                      Append(listed, Head(pending) \o "/**/*"))

\* C15: without a cycle getWhenModifiedPaths returns the raw paths of the
\* dependencies in depth-first pre-order, each followed at once by the paths
\* below it, repeats kept; a path that is no key of the graph gives the
\* empty list.
C15_PreorderPaths ==
    /\ \A i \in DOMAIN wpc :
          Made(i) =>
              getWhenModifiedPaths(projects[i], dependencies, 1).paths
                  = PreorderFrom(Below(projects[i]), <<>>)
    /\ pc = "read" =>
          \A p \in (fs.dirs \cup fs.files \cup {"/r/modules/module3"})
                      \ DOMAIN dependencies :
              getWhenModifiedPaths(p, dependencies, 1).paths = <<>>

\* project1 calls module1 and module2, module1 calls module2: module2 is
\* listed below module1 and again for itself.
C15_Witness ==
    /\ Made(1)
    /\ projects[1] = "/r/project1"
    /\ dependencies["/r/project1"] = <<"../modules/module1", "../modules/module2">>
    /\ getWhenModifiedPaths("/r/project1", dependencies, 1).paths =
          <<"/r/project1/../modules/module1/**/*",
            "/r/project1/../modules/module1/../module2/**/*",
            "/r/project1/../modules/module2/**/*">>

\* C16: the paths getWhenModifiedPaths lists for a project P are never
\* normalized: each begins with P + "/", so that the replacement in
\* cleanPaths removes exactly this leading part, and no pattern of the record
\* contains P or is absolute.
C16_DirtyPrefix ==
    \A i \in DOMAIN wpc :
        Made(i) =>
            LET P   == projects[i]
                raw == getWhenModifiedPaths(P, dependencies, 1).paths
            IN  /\ \A k \in 1..Len(raw) :
                      /\ HasPrefix(raw[k], P \o "/")
                      /\ ReplaceFirst(raw[k], P \o "/", "")
                            = SubSeq(raw[k], Len(P) + 2, Len(raw[k]))
                      /\ Contains(wcfg[i].Autoplan.WhenModified,
                                  Clean(SubSeq(raw[k], Len(P) + 2, Len(raw[k]))))
                /\ \A k \in 1..Len(wcfg[i].Autoplan.WhenModified) :
                      /\ Index(wcfg[i].Autoplan.WhenModified[k], P) = 0
                      /\ ~HasPrefix(wcfg[i].Autoplan.WhenModified[k], "/")

\* A path listed at the second level of the recursion still carries the
\* ".." of the first level behind the prefix of the project.
C16_Witness ==
    /\ Made(1)
    /\ projects[1] = "/r/project1"
    /\ Contains(getWhenModifiedPaths("/r/project1", dependencies, 1).paths,
                "/r/project1/../modules/module1/../module2/**/*")
    /\ wcfg[1].Autoplan.WhenModified =
          <<"**/*", "../modules/module1/**/*", "../modules/module2/**/*">>

\* The workers that have not called wg.Done().
Pending == {i \in DOMAIN wpc : wpc[i] # "done"}

\* C17: while addProjectsToConfig waits there is one worker per project and
\* the counter of the wait group is the number of workers not yet done; it
\* has returned only when every worker is done; the goroutines being
\* scheduled fairly, the wait ends with the return or with the death of a
\* worker in a recursion without end, and such a death needs a project that
\* reaches a cycle.
C17_WaitTerminates ==
    /\ [](pc = "wait" => /\ DOMAIN wpc = 1..Len(projects)
                         /\ wg = Cardinality(Pending))
    /\ [](Returned => Pending = {} /\ wg = 0)
    /\ [][pc = "wait" /\ pc' = "write" => Pending = {}]_vars
    /\ []((pc = "fatal" /\ fatalAt = "stack") =>
             \E i \in DOMAIN wpc : CycleReachable(projects[i]))
    /\ (pc = "wait") ~> (pc = "write" \/ (pc = "fatal" /\ fatalAt = "stack"))

\* addProjectsToConfig has returned for the three projects, the module
\* graph being a chain without a cycle.
C17_Witness ==
    /\ pc = "write"
    /\ Len(projects) = MaxProjects
    /\ wg = 0
    /\ \A i \in DOMAIN wpc : wpc[i] = "done" /\ ~CycleReachable(projects[i])
    /\ dependencies["/r/project2"] = <<"../modules/module2">>

=============================================================================
